---- MODULE Spec2Model ----
(***************************************************************************)
(* Model of the investment service: the Lambda handler, the service layer, *)
(* the repository (DynamoDB data access) and the input sanitizers.         *)
(*                                                                         *)
(* Scalar values are tagged records [t, n, s]: t is the JavaScript type,   *)
(* n the number (or 0/1 for a boolean), s the string.  Strings are TLA+    *)
(* strings and are read character by character where the code parses or    *)
(* formats them.  A JavaScript object (request body, record, filter set)   *)
(* is a function from its own property names to values.  An optional       *)
(* value is a sequence of length 0 (null / undefined) or 1.                *)
(***************************************************************************)
EXTENDS Integers, Sequences, FiniteSets, TLC

VARIABLES
    store,       \* the DynamoDB table: function from the keys present to the item
    storeCalls,  \* number of commands sent through documentClient.send
    req,         \* the request being served by the step just taken
    resp,        \* the response (and the service-level return value) of that step
    scan,        \* the list request in flight: position of scanAll in its loop
    coercion,    \* the sanitizers applied on their own to a raw object
    comparison,  \* compareValues applied on its own to two values
    creates,     \* two create requests in flight in two execution environments
    writers      \* the single-item requests other clients make during a scan

vars == <<store, storeCalls, req, resp, scan, coercion, comparison, creates, writers>>

-----------------------------------------------------------------------------
(* Bounds of the model                                                     *)

\* single-item requests are served while the store-call counter is below
\* MaxCalls, scan pages while it is below MaxScanCalls (the counter itself is
\* unbounded)
MaxCalls == 2
MaxScanCalls == 4

\* how many commands the other clients send to the table during one scan
MaxWrites == 2

\* largest number of items one scan page evaluates (DynamoDB: 1 MB of data)
MaxPageSize == 2

\* how many times in a row a sanitizer is applied to its own result
MaxPasses == 2

-----------------------------------------------------------------------------
(* JavaScript values and conversions                                       *)

Num(n) == [t |-> "num", n |-> n, s |-> ""]
Str(s) == [t |-> "str", n |-> 0, s |-> s]
Bool(b) == [t |-> "bool", n |-> IF b THEN 1 ELSE 0, s |-> ""]
Null == [t |-> "null", n |-> 0, s |-> ""]
Undefined == [t |-> "undef", n |-> 0, s |-> ""]
NaN == [t |-> "nan", n |-> 0, s |-> ""]

Some(x) == <<x>>
None == <<>>

Digits == {"0", "1", "2", "3", "4", "5", "6", "7", "8", "9"}

DigitVal(c) ==
    CASE c = "0" -> 0 [] c = "1" -> 1 [] c = "2" -> 2 [] c = "3" -> 3
      [] c = "4" -> 4 [] c = "5" -> 5 [] c = "6" -> 6 [] c = "7" -> 7
      [] c = "8" -> 8 [] c = "9" -> 9

DigitChar(d) == SubSeq("0123456789", d + 1, d + 1)

Char(s, i) == SubSeq(s, i, i)

AllDigits(s) == \A i \in 1..Len(s) : Char(s, i) \in Digits

RECURSIVE DigitsToNat(_)
DigitsToNat(s) ==
    IF s = "" THEN 0
    ELSE 10 * DigitsToNat(SubSeq(s, 1, Len(s) - 1)) + DigitVal(Char(s, Len(s)))

RECURSIVE NatToDigits(_)
NatToDigits(n) ==
    IF n < 10 THEN DigitChar(n)
    ELSE NatToDigits(n \div 10) \o DigitChar(n % 10)

\* String.prototype.trim
RECURSIVE TrimLeft(_)
TrimLeft(s) ==
    IF s # "" /\ Char(s, 1) = " " THEN TrimLeft(SubSeq(s, 2, Len(s))) ELSE s

RECURSIVE TrimRight(_)
TrimRight(s) ==
    IF s # "" /\ Char(s, Len(s)) = " " THEN TrimRight(SubSeq(s, 1, Len(s) - 1)) ELSE s

Trim(s) == TrimRight(TrimLeft(s))

\* the value of the decimal integer literal t, which carries a sign when signed
SignedLiteral(t, signed, body) ==
    IF body # "" /\ AllDigits(body)
    THEN Num(IF signed /\ Char(t, 1) = "-" THEN 0 - DigitsToNat(body) ELSE DigitsToNat(body))
    ELSE NaN

TrimmedToNumber(t, signed) ==
    IF t = "" THEN Num(0)
    ELSE SignedLiteral(t, signed, IF signed THEN SubSeq(t, 2, Len(t)) ELSE t)

StartsWithSign(t) == t # "" /\ Char(t, 1) \in {"-", "+"}

\* Number(string): StringNumericLiteral restricted to signed decimal integers;
\* the empty (or blank) string is 0, anything else is NaN.
StringToNumber(s) == TrimmedToNumber(Trim(s), StartsWithSign(Trim(s)))

\* Number(value)
ToNumber(v) ==
    CASE v.t = "num" -> v
      [] v.t = "nan" -> NaN
      [] v.t = "str" -> StringToNumber(v.s)
      [] v.t = "bool" -> Num(v.n)
      [] v.t = "null" -> Num(0)
      [] v.t = "undef" -> NaN

\* Number.prototype.toString for integers
NumberToString(n) ==
    IF n < 0 THEN "-" \o NatToDigits(0 - n) ELSE NatToDigits(n)

\* String(value) and value.toString()
StringOf(v) ==
    CASE v.t = "num" -> Str(NumberToString(v.n))
      [] v.t = "nan" -> Str("NaN")
      [] v.t = "str" -> v
      [] v.t = "bool" -> Str(IF v.n = 1 THEN "true" ELSE "false")
      [] v.t = "null" -> Str("null")
      [] v.t = "undef" -> Str("undefined")

\* !value
Falsy(v) ==
    \/ v.t \in {"null", "undef", "nan"}
    \/ v.t = "num" /\ v.n = 0
    \/ v.t = "bool" /\ v.n = 0
    \/ v.t = "str" /\ v.s = ""

\* { ...a, ...b }
Merge(a, b) ==
    [k \in DOMAIN a \cup DOMAIN b |-> IF k \in DOMAIN b THEN b[k] ELSE a[k]]

\* o[k], undefined when o has no property k
Prop(o, k) == IF k \in DOMAIN o THEN o[k] ELSE Undefined

-----------------------------------------------------------------------------
(* validators.ts                                                           *)

NUMERIC_FIELDS == {"id", "price"}

\* a request body: null, a string that is not JSON, or the JSON text of an object
NullBody == [kind |-> "null", obj |-> <<>>]
InvalidJson == [kind |-> "invalid", obj |-> <<>>]
JsonBody(o) == [kind |-> "json", obj |-> o]

parseBody(body) ==
    IF body.kind = "json" THEN Some(body.obj) ELSE None

\* sanitization that leaves the year as it came
sanitizeInvestmentPayloadField_YearAsIs(key, value) ==
    IF value.t \in {"undef", "null"} THEN None
    ELSE IF key \in NUMERIC_FIELDS
         THEN IF ToNumber(value).t # "nan" THEN Some(ToNumber(value)) ELSE None
    ELSE Some(value)

\* sanitization that puts 0 where a numeric field does not convert
sanitizeInvestmentPayloadField_DefaultsToZero(key, value) ==
    IF value.t \in {"undef", "null"} THEN None
    ELSE IF key \in NUMERIC_FIELDS
         THEN IF ToNumber(value).t # "nan" THEN Some(ToNumber(value)) ELSE Some(Num(0))
    ELSE IF key = "year" THEN Some(StringOf(value))
    ELSE Some(value)

\* sanitization that converts a numeric field only when it is a string
sanitizeInvestmentPayloadField_StringsOnly(key, value) ==
    IF value.t \in {"undef", "null"} THEN None
    ELSE IF key \in NUMERIC_FIELDS
         THEN IF value.t = "str" /\ ToNumber(value).t # "nan" THEN Some(ToNumber(value)) ELSE None
    ELSE IF key = "year" THEN Some(StringOf(value))
    ELSE Some(value)

sanitizeInvestmentPayloadField(key, value) ==
    IF value.t \in {"undef", "null"} THEN None
    ELSE IF key \in NUMERIC_FIELDS
         THEN IF ToNumber(value).t # "nan" THEN Some(ToNumber(value)) ELSE None
    ELSE IF key = "year" THEN Some(StringOf(value))
    ELSE Some(value)

sanitizeInvestmentPayload(payload) ==
    LET kept == {k \in DOMAIN payload :
                    sanitizeInvestmentPayloadField(k, payload[k]) # None}
    IN  [k \in kept |-> sanitizeInvestmentPayloadField(k, payload[k])[1]]

\* path.match(/^\/investment\/(\d+)$/), then Number(idMatch[1])
extractIdFromPath(path) ==
    LET prefix == "/investment/"
        rest == SubSeq(path, Len(prefix) + 1, Len(path))
    IN  IF /\ Len(path) > Len(prefix)
           /\ SubSeq(path, 1, Len(prefix)) = prefix
           /\ AllDigits(rest)
        THEN Some(DigitsToNat(rest))
        ELSE None

\* s.padStart(n, "0")
RECURSIVE padStart(_, _)
padStart(s, n) == IF Len(s) >= n THEN s ELSE padStart("0" \o s, n)

\* ts is Date.now(), rnd is Math.floor(Math.random() * 1000)
generateInvestmentId(ts, rnd) ==
    StringToNumber(NumberToString(ts) \o padStart(NumberToString(rnd), 3))

\* new Date().toISOString(), abstracted to a string determined by the clock
toISOString(ts) == Str("T" \o NumberToString(ts))

-----------------------------------------------------------------------------
(* The table, as the DynamoDB commands of investmentRepository.ts act on   *)
(* it.  fault is the name of an error with which the service rejects the   *)
(* command ("" when it serves it); a rejected command changes nothing.     *)

tableName == "investment"

StoreError(name) == [name |-> name, message |-> name, statusCode |-> 0]
NoError == [name |-> "", message |-> "", statusCode |-> 0]

\* the key of an item
KeyOf(item) == item["id"].n

\* GetCommand { TableName, Key: { id } }
GetItem(st, id, fault) ==
    IF fault # "" THEN [err |-> StoreError(fault), Item |-> None, st |-> st]
    ELSE [err |-> NoError,
          Item |-> IF id \in DOMAIN st THEN Some(st[id]) ELSE None,
          st |-> st]

\* PutCommand sent without its ConditionExpression
PutItem_Unconditional(st, item, fault) ==
    IF fault # "" THEN [err |-> StoreError(fault), st |-> st]
    ELSE [err |-> NoError,
          st |-> [k \in DOMAIN st \cup {KeyOf(item)} |->
                    IF k = KeyOf(item) THEN item ELSE st[k]]]

\* PutCommand { TableName, Item, ConditionExpression: attribute_not_exists(#id) }
PutItem(st, item, fault) ==
    IF fault # "" THEN [err |-> StoreError(fault), st |-> st]
    ELSE IF KeyOf(item) \in DOMAIN st
         THEN [err |-> StoreError("ConditionalCheckFailedException"), st |-> st]
    ELSE [err |-> NoError,
          st |-> [k \in DOMAIN st \cup {KeyOf(item)} |->
                    IF k = KeyOf(item) THEN item ELSE st[k]]]

\* an update that replaces the whole item by the key and the assigned attributes
UpdateItem_FullReplace(st, cmd, fault) ==
    LET id == cmd.Key
        assigned == [a \in {cmd.ExpressionAttributeNames[p[1]] : p \in cmd.UpdateExpression} |->
                        LET p == CHOOSE q \in cmd.UpdateExpression :
                                    cmd.ExpressionAttributeNames[q[1]] = a
                        IN  cmd.ExpressionAttributeValues[p[2]]]
    IN  IF fault # "" THEN [err |-> StoreError(fault), Attributes |-> None, st |-> st]
        ELSE IF "id" \in DOMAIN assigned
             THEN [err |-> StoreError("ValidationException"), Attributes |-> None, st |-> st]
        ELSE IF id \notin DOMAIN st
             THEN [err |-> StoreError("ConditionalCheckFailedException"),
                   Attributes |-> None, st |-> st]
        ELSE [err |-> NoError,
              Attributes |-> Some(Merge([id |-> st[id]["id"]], assigned)),
              st |-> [st EXCEPT ![id] = Merge([id |-> st[id]["id"]], assigned)]]

\* UpdateCommand { TableName, Key: { id }, UpdateExpression: SET ...,
\*   ConditionExpression: attribute_exists(#id), ReturnValues: ALL_NEW }.
\* An update expression that assigns the key attribute is rejected by the
\* service when it validates the request, before any item is read.
UpdateItem(st, cmd, fault) ==
    LET id == cmd.Key
        assigned == [a \in {cmd.ExpressionAttributeNames[p[1]] : p \in cmd.UpdateExpression} |->
                        LET p == CHOOSE q \in cmd.UpdateExpression :
                                    cmd.ExpressionAttributeNames[q[1]] = a
                        IN  cmd.ExpressionAttributeValues[p[2]]]
    IN  IF fault # "" THEN [err |-> StoreError(fault), Attributes |-> None, st |-> st]
        ELSE IF "id" \in DOMAIN assigned
             THEN [err |-> StoreError("ValidationException"), Attributes |-> None, st |-> st]
        ELSE IF id \notin DOMAIN st
             THEN [err |-> StoreError("ConditionalCheckFailedException"),
                   Attributes |-> None, st |-> st]
        ELSE [err |-> NoError,
              Attributes |-> Some(Merge(st[id], assigned)),
              st |-> [st EXCEPT ![id] = Merge(st[id], assigned)]]

\* DeleteCommand sent without ReturnValues
DeleteItem_NoOldValues(st, id, fault) ==
    IF fault # "" THEN [err |-> StoreError(fault), Attributes |-> None, st |-> st]
    ELSE [err |-> NoError,
          Attributes |-> None,
          st |-> [k \in DOMAIN st \ {id} |-> st[k]]]

\* DeleteCommand { TableName, Key: { id }, ReturnValues: ALL_OLD }
DeleteItem(st, id, fault) ==
    IF fault # "" THEN [err |-> StoreError(fault), Attributes |-> None, st |-> st]
    ELSE IF id \notin DOMAIN st THEN [err |-> NoError, Attributes |-> None, st |-> st]
    ELSE [err |-> NoError,
          Attributes |-> Some(st[id]),
          st |-> [k \in DOMAIN st \ {id} |-> st[k]]]

-----------------------------------------------------------------------------
(* Outcome of a call into the repository or the service: the value it      *)
(* returns or the error it throws, the table after it, and the number of   *)
(* commands it sent to the table.                                          *)

Return(v, st, c) == [thrown |-> FALSE, err |-> NoError, val |-> v, st |-> st, calls |-> c]
Throw(e, st, c) == [thrown |-> TRUE, err |-> e, val |-> None, st |-> st, calls |-> c]

\* new Error(message), with statusCode when the service sets it
Error(message, statusCode) ==
    [name |-> "Error", message |-> message, statusCode |-> statusCode]

\* the members of a finite set in some fixed order (Object.entries order)
RECURSIVE SetToSeq(_)
SetToSeq(S) ==
    IF S = {} THEN <<>>
    ELSE LET x == CHOOSE y \in S : TRUE IN <<x>> \o SetToSeq(S \ {x})

-----------------------------------------------------------------------------
(* investmentRepository.ts: single-item operations                         *)

investmentRepository_getById(st, id, fault) ==
    LET r == GetItem(st, id, fault)
    IN  IF r.err.name # "" THEN Throw(r.err, st, 1)
        ELSE Return(r.Item, st, 1)

\* create that sends the PutCommand a second time when the first one fails
investmentRepository_create_RetriesOnError(st, investment, fault) ==
    LET r == PutItem(st, investment, fault)
        again == PutItem(st, investment, "")
    IN  IF r.err.name = "" THEN Return(Some(investment), r.st, 1)
        ELSE IF again.err.name # "" THEN Throw(again.err, st, 2)
        ELSE Return(Some(investment), again.st, 2)

investmentRepository_create(st, investment, fault) ==
    LET r == PutItem(st, investment, fault)
    IN  IF r.err.name # "" THEN Throw(r.err, st, 1)
        ELSE Return(Some(investment), r.st, 1)

\* the UpdateCommand built from the entries of the update set
UpdateCommandOf(id, updates, entries) ==
    LET idx == 1..Len(entries)
        nameKey(i) == "#field_" \o NumberToString(i - 1)
        valueKey(i) == ":value_" \o NumberToString(i - 1)
    IN  [TableName |-> tableName,
         Key |-> id,
         UpdateExpression |-> {<<nameKey(i), valueKey(i)>> : i \in idx},
         ExpressionAttributeNames |->
             [n \in {"#id"} \cup {nameKey(i) : i \in idx} |->
                 IF n = "#id" THEN "id"
                 ELSE entries[CHOOSE i \in idx : nameKey(i) = n]],
         ExpressionAttributeValues |->
             [v \in {valueKey(i) : i \in idx} |->
                 updates[entries[CHOOSE i \in idx : valueKey(i) = v]]],
         ConditionExpression |-> "attribute_exists(#id)",
         ReturnValues |-> "ALL_NEW"]

\* a repository update whose catch answers null for every store error
investmentRepository_update_AnyErrorIsNull(st, id, updates, fault) ==
    LET entries == SetToSeq({k \in DOMAIN updates : updates[k].t # "undef"})
        r == UpdateItem(st, UpdateCommandOf(id, updates, entries), fault)
    IN  IF entries = <<>> THEN Return(None, st, 0)
        ELSE IF r.err.name # "" THEN Return(None, st, 1)
        ELSE Return(r.Attributes, r.st, 1)

investmentRepository_update(st, id, updates, fault) ==
    LET entries == SetToSeq({k \in DOMAIN updates : updates[k].t # "undef"})
        r == UpdateItem(st, UpdateCommandOf(id, updates, entries), fault)
    IN  IF entries = <<>> THEN Return(None, st, 0)
        ELSE IF r.err.name = "ConditionalCheckFailedException" THEN Return(None, st, 1)
        ELSE IF r.err.name # "" THEN Throw(r.err, st, 1)
        ELSE Return(r.Attributes, r.st, 1)

investmentRepository_delete(st, id, fault) ==
    LET r == DeleteItem(st, id, fault)
    IN  IF r.err.name # "" THEN Throw(r.err, st, 1)
        ELSE Return(r.Attributes, r.st, 1)

-----------------------------------------------------------------------------
(* investmentService.ts: single-item operations                            *)

investmentService_getById(st, investmentId, fault) ==
    investmentRepository_getById(st, investmentId, fault)

\* the record create hands to the repository
CreatePayload(newInvestment, ts, rnd) ==
    LET sanitized == sanitizeInvestmentPayload(newInvestment)
        withId == IF "id" \notin DOMAIN sanitized
                  THEN Merge(sanitized, [id |-> generateInvestmentId(ts, rnd)])
                  ELSE sanitized
    IN  IF Falsy(Prop(withId, "createdAt"))
        THEN Merge(withId, [createdAt |-> toISOString(ts)])
        ELSE withId

\* a create that answers a conflict by putting the record under the next key
investmentService_create_RetriesWithNewKey(st, body, ts, rnd, fault) ==
    LET newInvestment == parseBody(body)
        payload == CreatePayload(newInvestment[1], ts, rnd)
        r == investmentRepository_create(st, payload, fault)
        again == investmentRepository_create(
                     st, [payload EXCEPT !["id"] = Num(payload["id"].n + 1)], fault)
    IN  IF newInvestment = None THEN Throw(Error("Invalid request body", 0), st, 0)
        ELSE IF r.thrown /\ r.err.name = "ConditionalCheckFailedException"
             THEN IF again.thrown
                  THEN Throw(Error("Investment ID already exists", 409), again.st, 2)
                  ELSE Return(again.val, again.st, 2)
        ELSE r

investmentService_create(st, body, ts, rnd, fault) ==
    LET newInvestment == parseBody(body)
        r == investmentRepository_create(st, CreatePayload(newInvestment[1], ts, rnd), fault)
    IN  IF newInvestment = None THEN Throw(Error("Invalid request body", 0), st, 0)
        ELSE IF r.thrown /\ r.err.name = "ConditionalCheckFailedException"
             THEN Throw(Error("Investment ID already exists", 409), r.st, r.calls)
        ELSE r

\* update without its check of Object.keys(sanitizedUpdates).length
investmentService_update_NoEmptyCheck(st, path, body, fault) ==
    LET investmentId == extractIdFromPath(path)
        updatedInvestment == parseBody(body)
        sanitizedUpdates == sanitizeInvestmentPayload(updatedInvestment[1])
        r == investmentRepository_update(st, investmentId[1], sanitizedUpdates, fault)
    IN  IF investmentId = None THEN Throw(Error("Invalid PUT Path", 0), st, 0)
        ELSE IF updatedInvestment = None THEN Throw(Error("Invalid request body", 0), st, 0)
        ELSE IF ~r.thrown /\ r.val = None
             THEN Throw(Error("Investment Not Found", 404), r.st, r.calls)
        ELSE r

investmentService_update(st, path, body, fault) ==
    LET investmentId == extractIdFromPath(path)
        updatedInvestment == parseBody(body)
        sanitizedUpdates == sanitizeInvestmentPayload(updatedInvestment[1])
        r == investmentRepository_update(st, investmentId[1], sanitizedUpdates, fault)
    IN  IF investmentId = None THEN Throw(Error("Invalid PUT Path", 0), st, 0)
        ELSE IF updatedInvestment = None THEN Throw(Error("Invalid request body", 0), st, 0)
        ELSE IF DOMAIN sanitizedUpdates = {}
             THEN Throw(Error("No valid fields provided for update", 0), st, 0)
        ELSE IF ~r.thrown /\ r.val = None
             THEN Throw(Error("Investment Not Found", 404), r.st, r.calls)
        ELSE r

investmentService_delete(st, path, fault) ==
    LET investmentId == extractIdFromPath(path)
        r == investmentRepository_delete(st, investmentId[1], fault)
    IN  IF investmentId = None THEN Throw(Error("Invalid DELETE Path", 0), st, 0)
        ELSE IF ~r.thrown /\ r.val = None
             THEN Throw(Error("Investment Not Found", 404), r.st, r.calls)
        ELSE r

-----------------------------------------------------------------------------
(* responseHelper.ts and handlers/investment.ts                            *)

\* ret is the value the service returned to the handler (None when it threw)
createResponse(status, code, message, data, error, ret) ==
    [statusCode |-> code, status |-> status, message |-> message,
     data |-> data, error |-> error, ret |-> ret]

\* the catch block of lambdaHandler
ErrorResponse(err) ==
    createResponse("1",
                   IF err.statusCode # 0 THEN err.statusCode ELSE 500,
                   IF err.message # "" THEN err.message ELSE "Internal Server Error",
                   None, Some(err.message), None)

handleGetById(o) ==
    IF o.thrown THEN ErrorResponse(o.err)
    ELSE IF o.val = None
         THEN createResponse("1", 404, "Investment Not Found", None, None, o.val)
    ELSE createResponse("0", 200, "OK", o.val, None, o.val)

handlePost(o) ==
    IF o.thrown THEN ErrorResponse(o.err)
    ELSE createResponse("0", 201, "OK", o.val, None, o.val)

handlePut(o) ==
    IF o.thrown THEN ErrorResponse(o.err)
    ELSE createResponse("0", 200, "OK", o.val, None, o.val)

handleDelete(o) ==
    IF o.thrown THEN ErrorResponse(o.err)
    ELSE createResponse("0", 204, "OK", None, None, o.val)

-----------------------------------------------------------------------------
(* investmentRepository.ts: filters                                        *)

REPO_NUMERIC_FIELDS == {"id", "price"}

EmptyObject == [k \in {} |-> Undefined]

\* parseFilterValue without its check for empty values
parseFilterValue_NoEmptyCheck(field, value) ==
    IF field \in REPO_NUMERIC_FIELDS
    THEN IF ToNumber(value).t # "nan" THEN Some(ToNumber(value)) ELSE None
    ELSE IF field = "year" THEN Some(StringOf(value))
    ELSE Some(value)

\* parseFilterValue that passes a value on when it does not convert
parseFilterValue_PassesRaw(field, value) ==
    IF value.t \in {"undef", "null"} \/ value = Str("") THEN None
    ELSE IF field \in REPO_NUMERIC_FIELDS
         THEN IF ToNumber(value).t # "nan" THEN Some(ToNumber(value)) ELSE Some(value)
    ELSE IF field = "year" THEN Some(StringOf(value))
    ELSE Some(value)

\* parseFilterValue that leaves the year as it came
parseFilterValue_YearAsIs(field, value) ==
    IF value.t \in {"undef", "null"} \/ value = Str("") THEN None
    ELSE IF field \in REPO_NUMERIC_FIELDS
         THEN IF ToNumber(value).t # "nan" THEN Some(ToNumber(value)) ELSE None
    ELSE Some(value)

\* None stands for the undefined that parseFilterValue returns
parseFilterValue(field, value) ==
    IF value.t \in {"undef", "null"} \/ value = Str("") THEN None
    ELSE IF field \in REPO_NUMERIC_FIELDS
         THEN IF ToNumber(value).t # "nan" THEN Some(ToNumber(value)) ELSE None
    ELSE IF field = "year" THEN Some(StringOf(value))
    ELSE Some(value)

sanitizeFilters(filters) ==
    LET kept == {k \in DOMAIN filters : parseFilterValue(k, filters[k]) # None}
    IN  [k \in kept |-> parseFilterValue(k, filters[k])[1]]

\* FilterExpression is the set of its clauses <<name placeholder, value
\* placeholder>>, which the expression joins with AND
buildFilterExpressions(filters) ==
    LET kept == {k \in DOMAIN filters :
                    ~(filters[k].t \in {"undef", "null"} \/ filters[k] = Str(""))}
    IN  IF kept = {} THEN EmptyObject
        ELSE [FilterExpression |-> {<<"#" \o k, ":" \o k>> : k \in kept},
              ExpressionAttributeNames |->
                  [n \in {"#" \o k : k \in kept} |-> CHOOSE k \in kept : "#" \o k = n],
              ExpressionAttributeValues |->
                  [v \in {":" \o k : k \in kept} |->
                      filters[CHOOSE k \in kept : ":" \o k = v]]]

-----------------------------------------------------------------------------
(* The table under ScanCommand.  A page evaluates up to n items in the     *)
(* table's scan order (a fixed order of the keys, here ascending), starting*)
(* after ExclusiveStartKey; it returns those that satisfy the filter, and  *)
(* LastEvaluatedKey when items remain (or, when the page ends exactly at   *)
(* the last item, whenever the service chooses to: more).                  *)

\* the clauses joined with OR
Matches_AnyClause(item, input) ==
    \/ "FilterExpression" \notin DOMAIN input
    \/ \E c \in input.FilterExpression :
          LET attr == input.ExpressionAttributeNames[c[1]]
          IN  attr \in DOMAIN item /\ item[attr] = input.ExpressionAttributeValues[c[2]]

Matches(item, input) ==
    \/ "FilterExpression" \notin DOMAIN input
    \/ \A c \in input.FilterExpression :
          LET attr == input.ExpressionAttributeNames[c[1]]
          IN  attr \in DOMAIN item /\ item[attr] = input.ExpressionAttributeValues[c[2]]

RECURSIVE Ascending(_)
Ascending(K) ==
    IF K = {} THEN <<>>
    ELSE LET m == CHOOSE x \in K : \A y \in K : x <= y
         IN  <<m>> \o Ascending(K \ {m})

RECURSIVE SelectItems(_, _, _)
SelectItems(st, keys, input) ==
    IF keys = <<>> THEN <<>>
    ELSE (IF Matches(st[Head(keys)], input) THEN <<st[Head(keys)]>> ELSE <<>>)
         \o SelectItems(st, Tail(keys), input)

Scan(st, input, ExclusiveStartKey, n, more, fault) ==
    LET rest == Ascending({k \in DOMAIN st :
                              ExclusiveStartKey = None \/ k > ExclusiveStartKey[1]})
        evaluated == SubSeq(rest, 1, IF n < Len(rest) THEN n ELSE Len(rest))
    IN  IF fault # "" THEN [err |-> StoreError(fault), Items |-> <<>>, LastEvaluatedKey |-> None]
        ELSE [err |-> NoError,
              Items |-> SelectItems(st, evaluated, input),
              LastEvaluatedKey |->
                  IF evaluated # <<>> /\ (Len(evaluated) < Len(rest) \/ more)
                  THEN Some(evaluated[Len(evaluated)])
                  ELSE None]

-----------------------------------------------------------------------------
(* investmentRepository.ts: sorting                                        *)

RECURSIVE Split(_, _)
Split(s, sep) ==
    LET hits == {i \in 1..Len(s) : Char(s, i) = sep}
        i == CHOOSE j \in hits : \A h \in hits : j <= h
    IN  IF hits = {} THEN <<s>>
        ELSE <<SubSeq(s, 1, i - 1)>> \o Split(SubSeq(s, i + 1, Len(s)), sep)

\* parseSortBy that reads either prefix as descending
parseSortBy_AnyPrefixDescending(sortBy) ==
    LET tokens == Split(sortBy, ",")
        trimmed == [i \in DOMAIN tokens |-> Trim(tokens[i])]
        nonEmpty == SelectSeq(trimmed, LAMBDA f : f # "")
        pair(f) == [field |-> IF Char(f, 1) \in {"-", "+"} THEN SubSeq(f, 2, Len(f)) ELSE f,
                    direction |-> IF Char(f, 1) \in {"-", "+"} THEN 0 - 1 ELSE 1]
        pairs == [i \in DOMAIN nonEmpty |-> pair(nonEmpty[i])]
    IN  SelectSeq(pairs, LAMBDA p : p.field # "")

parseSortBy(sortBy) ==
    LET tokens == Split(sortBy, ",")
        trimmed == [i \in DOMAIN tokens |-> Trim(tokens[i])]
        nonEmpty == SelectSeq(trimmed, LAMBDA f : f # "")
        pair(f) == [field |-> IF Char(f, 1) \in {"-", "+"} THEN SubSeq(f, 2, Len(f)) ELSE f,
                    direction |-> IF Char(f, 1) = "-" THEN 0 - 1 ELSE 1]
        pairs == [i \in DOMAIN nonEmpty |-> pair(nonEmpty[i])]
    IN  SelectSeq(pairs, LAMBDA p : p.field # "")

\* collation rank of a character: digits before letters (lower case only)
CharRank(c) ==
    LET table == "0123456789abcdefghijklmnopqrstuvwxyz"
        hits == {i \in 1..Len(table) : Char(table, i) = c}
    IN  IF hits = {} THEN 0 ELSE CHOOSE i \in hits : TRUE

RECURSIVE localeCompare(_, _)
localeCompare(a, b) ==
    LET ra == CharRank(Char(a, 1))
        rb == CharRank(Char(b, 1))
    IN  IF a = "" /\ b = "" THEN 0
        ELSE IF a = "" THEN 0 - 1
        ELSE IF b = "" THEN 1
        ELSE IF ra # rb THEN (IF ra < rb THEN 0 - 1 ELSE 1)
        ELSE localeCompare(SubSeq(a, 2, Len(a)), SubSeq(b, 2, Len(b)))

NumberGreater(na, nb) == na.t = "num" /\ nb.t = "num" /\ na.n > nb.n

\* a > b when a and b are not both strings: both are converted to numbers,
\* and the comparison is false when either is NaN
GreaterThan(a, b) == NumberGreater(ToNumber(a), ToNumber(b))

compareValues(a, b) ==
    IF a = b THEN 0
    ELSE IF a.t \in {"undef", "null"} THEN 1
    ELSE IF b.t \in {"undef", "null"} THEN 0 - 1
    ELSE IF a.t = "str" /\ b.t = "str" THEN localeCompare(a.s, b.s)
    ELSE IF GreaterThan(a, b) THEN 1 ELSE 0 - 1

\* the first comparison that is not 0, or 0
RECURSIVE FirstNonZero(_)
FirstNonZero(comparisons) ==
    IF comparisons = <<>> THEN 0
    ELSE IF Head(comparisons) # 0 THEN Head(comparisons)
    ELSE FirstNonZero(Tail(comparisons))

\* the comparator sortItems passes to Array.prototype.sort
ItemComparator(sortFields, itemA, itemB) ==
    FirstNonZero([i \in DOMAIN sortFields |->
                    compareValues(Prop(itemA, sortFields[i].field),
                                  Prop(itemB, sortFields[i].field))
                        * sortFields[i].direction])

Reverse(arr) == [i \in DOMAIN arr |-> arr[Len(arr) + 1 - i]]

\* Array.prototype.sort as V8 runs it on fewer than 64 elements: the leading
\* run is found (and reversed when strictly descending), then the remaining
\* elements are placed by binary insertion.
RECURSIVE RunLength(_, _, _, _)
RunLength(arr, sortFields, descending, idx) ==
    IF idx > Len(arr) THEN idx - 1
    ELSE LET order == ItemComparator(sortFields, arr[idx], arr[idx - 1])
         IN  IF (descending /\ order >= 0) \/ (~descending /\ order < 0)
             THEN idx - 1
             ELSE RunLength(arr, sortFields, descending, idx + 1)

RECURSIVE InsertionPoint(_, _, _, _, _)
InsertionPoint(arr, sortFields, pivot, left, right) ==
    IF left >= right THEN left
    ELSE LET mid == left + ((right - left) \div 2)
             before == ItemComparator(sortFields, pivot, arr[mid]) < 0
         IN  InsertionPoint(arr, sortFields, pivot,
                            IF before THEN left ELSE mid + 1,
                            IF before THEN mid ELSE right)

RECURSIVE BinaryInsertionSort(_, _, _)
BinaryInsertionSort(arr, sortFields, start) ==
    IF start > Len(arr) THEN arr
    ELSE LET left == InsertionPoint(arr, sortFields, arr[start], 1, start)
         IN  BinaryInsertionSort(
                 SubSeq(arr, 1, left - 1) \o <<arr[start]>>
                    \o SubSeq(arr, left, start - 1) \o SubSeq(arr, start + 1, Len(arr)),
                 sortFields, start + 1)

ArraySort(arr, sortFields) ==
    IF Len(arr) < 2 THEN arr
    ELSE LET descending == ItemComparator(sortFields, arr[2], arr[1]) < 0
             run == RunLength(arr, sortFields, descending, 3)
             made == IF descending
                     THEN Reverse(SubSeq(arr, 1, run)) \o SubSeq(arr, run + 1, Len(arr))
                     ELSE arr
         IN  BinaryInsertionSort(made, sortFields, run + 1)

sortItems(items, sortBy) ==
    LET sortFields == parseSortBy(sortBy)
    IN  IF sortFields = <<>> THEN items ELSE ArraySort(items, sortFields)

-----------------------------------------------------------------------------
(* investmentRepository.list / scanAll: one list request in flight.        *)
(* scan.requests logs the ExclusiveStartKey of every ScanCommand sent and  *)
(* scan.responses every page received, in order.                           *)

IdleScan ==
    [pc |-> "idle", input |-> EmptyObject, sortBy |-> "", lastEvaluatedKey |-> None,
     items |-> <<>>, err |-> NoError, requests |-> <<>>, responses |-> <<>>]

\* const { sort_by: sortBy, ...filters } = queryParams; sortBy || ""
SortByOf(queryParams) ==
    IF "sort_by" \in DOMAIN queryParams /\ ~Falsy(queryParams["sort_by"])
    THEN queryParams["sort_by"].s
    ELSE ""

\* a list that passes every query parameter on as a filter
FiltersOf_KeepsSortBy(queryParams) ==
    queryParams

FiltersOf(queryParams) ==
    [k \in DOMAIN queryParams \ {"sort_by"} |-> queryParams[k]]

\* the scanInput of investmentRepository.list
ScanInputOf(filters) ==
    Merge([TableName |-> tableName], buildFilterExpressions(sanitizeFilters(filters)))

\* scanAll before its first iteration
StartScan(queryParams) ==
    [IdleScan EXCEPT !.pc = "scanning",
                     !.input = ScanInputOf(FiltersOf(queryParams)),
                     !.sortBy = SortByOf(queryParams)]

\* scanAll that sends every ScanCommand without ExclusiveStartKey
scanAll_NoStartKey(sc, st, n, more, fault) ==
    LET r == Scan(st, sc.input, None, n, more, fault)
        sent == Append(sc.requests, None)
    IN  IF r.err.name # ""
        THEN [sc EXCEPT !.pc = "failed", !.err = r.err, !.requests = sent]
        ELSE [sc EXCEPT !.pc = IF r.LastEvaluatedKey # None THEN "scanning" ELSE "done",
                        !.items = sc.items \o r.Items,
                        !.lastEvaluatedKey = r.LastEvaluatedKey,
                        !.requests = sent,
                        !.responses = Append(sc.responses,
                                             [Items |-> r.Items,
                                              LastEvaluatedKey |-> r.LastEvaluatedKey])]

\* scanAll that catches the error of a page and returns what it has
scanAll_SwallowsError(sc, st, n, more, fault) ==
    LET r == Scan(st, sc.input, sc.lastEvaluatedKey, n, more, fault)
        sent == Append(sc.requests, sc.lastEvaluatedKey)
    IN  IF r.err.name # ""
        THEN [sc EXCEPT !.pc = "done", !.requests = sent]
        ELSE [sc EXCEPT !.pc = IF r.LastEvaluatedKey # None THEN "scanning" ELSE "done",
                        !.items = sc.items \o r.Items,
                        !.lastEvaluatedKey = r.LastEvaluatedKey,
                        !.requests = sent,
                        !.responses = Append(sc.responses,
                                             [Items |-> r.Items,
                                              LastEvaluatedKey |-> r.LastEvaluatedKey])]

\* scanAll that keeps the items of the last page only
scanAll_KeepsLastPage(sc, st, n, more, fault) ==
    LET r == Scan(st, sc.input, sc.lastEvaluatedKey, n, more, fault)
        sent == Append(sc.requests, sc.lastEvaluatedKey)
    IN  IF r.err.name # ""
        THEN [sc EXCEPT !.pc = "failed", !.err = r.err, !.requests = sent]
        ELSE [sc EXCEPT !.pc = IF r.LastEvaluatedKey # None THEN "scanning" ELSE "done",
                        !.items = r.Items,
                        !.lastEvaluatedKey = r.LastEvaluatedKey,
                        !.requests = sent,
                        !.responses = Append(sc.responses,
                                             [Items |-> r.Items,
                                              LastEvaluatedKey |-> r.LastEvaluatedKey])]

\* one iteration of the do-while loop of scanAll
scanAll(sc, st, n, more, fault) ==
    LET r == Scan(st, sc.input, sc.lastEvaluatedKey, n, more, fault)
        sent == Append(sc.requests, sc.lastEvaluatedKey)
    IN  IF r.err.name # ""
        THEN [sc EXCEPT !.pc = "failed", !.err = r.err, !.requests = sent]
        ELSE [sc EXCEPT !.pc = IF r.LastEvaluatedKey # None THEN "scanning" ELSE "done",
                        !.items = sc.items \o r.Items,
                        !.lastEvaluatedKey = r.LastEvaluatedKey,
                        !.requests = sent,
                        !.responses = Append(sc.responses,
                                             [Items |-> r.Items,
                                              LastEvaluatedKey |-> r.LastEvaluatedKey])]

NoResponse == createResponse("", 0, "", None, None, None)

\* what handleGet answers once scanAll has left its loop
handleList(sc) ==
    IF sc.pc = "failed" THEN ErrorResponse(sc.err)
    ELSE IF sc.pc = "done"
         THEN LET sorted == sortItems(sc.items, sc.sortBy)
              IN  createResponse("0", 200, "OK", Some(sorted), None, Some(sorted))
    ELSE NoResponse

\* what investmentRepository.list returns when the table does not change
\* during the scan and every page is served
investmentRepository_list(st, filters, sortBy) ==
    sortItems(SelectItems(st, Ascending(DOMAIN st), ScanInputOf(filters)), sortBy)

-----------------------------------------------------------------------------
(* Inputs                                                                  *)

ItemPaths == {"/investment/1", "/investment/2", "/investment/x"}
ListPaths == {"/investment", "/investment/x"}

Objects ==
    { [id |-> Num(1), price |-> Str("50"), year |-> Num(2024)],
      [id |-> Str("2"), price |-> Num(100), year |-> Str("2023"), createdAt |-> Str("T9")],
      [id |-> Num(1), price |-> Num(100), createdAt |-> Str("")],
      [price |-> Str("abc"), owner |-> Null],
      [price |-> Num(75), owner |-> Str("bob")],
      [id |-> Str("a"), year |-> Num(2023)],
      [id |-> Num(2), price |-> Str("")],
      [year |-> Num(2024), target |-> Bool(TRUE)] }

Bodies == {NullBody, InvalidJson} \cup {JsonBody(o) : o \in Objects}

Clock == {1}
Rands == {7}
Faults == {"InternalServerError"}

Queries ==
    { EmptyObject,
      [year |-> Num(2024)],
      [price |-> Str("abc")],
      [price |-> Str("100")],
      [price |-> Str(""), owner |-> Null, year |-> Undefined],
      [owner |-> Str("bob"), price |-> Str("100")],
      [ghost |-> Str("x")],
      [sort_by |-> Str("-price")],
      [sort_by |-> Str("price,-id"), year |-> Str("")],
      [id |-> Str("x"), year |-> Str("2023")],
      [sort_by |-> Str("owner")],
      [sort_by |-> Str("-owner,price")],
      [sort_by |-> Str(" +price , -id ")],
      [sort_by |-> Str("--price,,-")],
      [sort_by |-> Str("+,-, ")],
      [sort_by |-> Str("-id"), price |-> Str("100")],
      [sort_by |-> Str("-owner")] }

Record1 == [id |-> Num(1), price |-> Num(100), year |-> Str("2024"), createdAt |-> Str("T0")]
Record2 == [id |-> Num(2), price |-> Num(50), year |-> Str("2023"), createdAt |-> Str("T0")]
Record3 == [id |-> Num(3), price |-> Num(100), owner |-> Str("bob"), createdAt |-> Str("T0")]

EmptyStore == [k \in {} |-> EmptyObject]

InitStores ==
    { EmptyStore,
      [k \in {1, 2} |-> IF k = 1 THEN Record1 ELSE Record2],
      [k \in {1, 2, 3} |-> IF k = 1 THEN Record1 ELSE IF k = 2 THEN Record2 ELSE Record3] }

\* tables of records created with an owner that is a string in one record and
\* a number in another (sanitizeInvestmentPayload stores it as it came)
Record4 == [id |-> Num(1), price |-> Num(100), owner |-> Str("abc"), createdAt |-> Str("T0")]
Record5 == [id |-> Num(2), price |-> Num(50), owner |-> Num(5), createdAt |-> Str("T0")]
Record6 == [id |-> Num(3), price |-> Num(100), owner |-> Str("abc"), createdAt |-> Str("T1")]
Record7 == [id |-> Num(1), price |-> Num(100), owner |-> Num(3), createdAt |-> Str("T0")]
Record8 == [id |-> Num(2), price |-> Num(100), owner |-> Str("abc"), createdAt |-> Str("T0")]
Record9 == [id |-> Num(3), price |-> Num(50), owner |-> Num(5), createdAt |-> Str("T0")]

\* a table in which one record has the attribute owner with the value NULL,
\* one has no owner and one has an owner
Record10 == [id |-> Num(1), price |-> Num(100), owner |-> Null, createdAt |-> Str("T0")]
Record11 == [id |-> Num(2), price |-> Num(50), createdAt |-> Str("T0")]
Record12 == [id |-> Num(3), price |-> Num(100), owner |-> Str("bob"), createdAt |-> Str("T0")]

SortStores ==
    { [k \in {1, 2, 3} |-> IF k = 1 THEN Record1 ELSE IF k = 2 THEN Record2 ELSE Record3],
      [k \in {1, 2, 3} |-> IF k = 1 THEN Record4 ELSE IF k = 2 THEN Record5 ELSE Record6],
      [k \in {1, 2, 3} |-> IF k = 1 THEN Record7 ELSE IF k = 2 THEN Record8 ELSE Record9],
      [k \in {1, 2, 3} |-> IF k = 1 THEN Record10 ELSE IF k = 2 THEN Record11 ELSE Record12] }

\* raw scalar values of a field, and objects with one field or with several
RawValues ==
    { Num(0), Num(5), Num(0 - 3), Str(""), Str(" "), Str("12"), Str(" 7 "), Str("-4"),
      Str("abc"), Str("2024"), Bool(TRUE), Bool(FALSE), Null, Undefined, NaN }

CoercedFields == {"id", "price", "year", "owner"}

RawObjects ==
    {[k \in {f} |-> v] : f \in CoercedFields, v \in RawValues} \cup Objects

\* raw is the object given; payload and filters are the results of
\* sanitizeInvestmentPayload and of sanitizeFilters, applied payloadPasses and
\* filterPasses times
NoCoercion ==
    [raw |-> EmptyObject, payload |-> None, payloadPasses |-> 0,
     filters |-> None, filterPasses |-> 0]

Request(method, path, body, query, ts, rnd, fault) ==
    [method |-> method, path |-> path, body |-> body, queryStringParameters |-> query,
     ts |-> ts, rnd |-> rnd, fault |-> fault]

NoRequest == Request("", "", NullBody, EmptyObject, 0, 0, "")

\* a and b are the values given; result is compareValues(a, b) and reverse
\* is compareValues(b, a), once they have been computed
NoComparison == [a |-> Undefined, b |-> Undefined, result |-> None, reverse |-> None]

\* the values an attribute of an item can have: numbers, strings, booleans,
\* null, and undefined for an attribute the item lacks
AttributeValues ==
    { Num(0), Num(5), Num(0 - 3), Str(""), Str(" "), Str("12"), Str(" 7 "), Str("-4"),
      Str("abc"), Str("2024"), Bool(TRUE), Bool(FALSE), Null, Undefined }

\* the execution environments that serve the two concurrent creates
Environments == {1, 2}

\* a create in an environment: idle, awaiting the answer to its PutCommand
\* (req is the request, with the time and the random number it read), or
\* done with its response; calls counts the commands it has sent
NoCreates ==
    [e \in Environments |->
        [pc |-> "idle", req |-> NoRequest, resp |-> NoResponse, calls |-> 0]]

\* req and resp are the last single-item request another client made during
\* the scan and its response, written the keys whose record such requests
\* have created, changed or deleted, calls the commands they have sent
NoWriters == [req |-> NoRequest, resp |-> NoResponse, written |-> {}, calls |-> 0]

-----------------------------------------------------------------------------
(* The state machine                                                       *)

\* nothing but the requests of one client is going on
NoOtherActivity ==
    /\ comparison = NoComparison
    /\ creates = NoCreates
    /\ writers = NoWriters

Init ==
    /\ store \in InitStores
    /\ storeCalls = 0
    /\ req = NoRequest
    /\ resp = NoResponse
    /\ scan = IdleScan
    /\ coercion = NoCoercion
    /\ NoOtherActivity

\* a request served with one outcome o of the service
Serve(request, o, response) ==
    /\ storeCalls + o.calls <= MaxCalls
    /\ o.calls = 0 => request.fault = ""
    /\ store' = o.st
    /\ storeCalls' = storeCalls + o.calls
    /\ req' = request
    /\ resp' = response
    /\ UNCHANGED <<scan, coercion, comparison, creates, writers>>

\* GET /investment/{id}
Get(path, fault) ==
    /\ extractIdFromPath(path) # None
    /\ LET o == investmentService_getById(store, extractIdFromPath(path)[1], fault)
       IN  Serve(Request("GET", path, NullBody, EmptyObject, 0, 0, fault), o, handleGetById(o))

\* POST /investment
Post(body, ts, rnd, fault) ==
    /\ body \in Bodies
    /\ LET o == investmentService_create(store, body, ts, rnd, fault)
       IN  Serve(Request("POST", "/investment", body, EmptyObject, ts, rnd, fault), o, handlePost(o))

\* PUT /investment/{id}
Put(path, body, fault) ==
    /\ body \in Bodies
    /\ LET o == investmentService_update(store, path, body, fault)
       IN  Serve(Request("PUT", path, body, EmptyObject, 0, 0, fault), o, handlePut(o))

\* DELETE /investment/{id}
Delete(path, fault) ==
    /\ path \in ItemPaths
    /\ LET o == investmentService_delete(store, path, fault)
       IN  Serve(Request("DELETE", path, NullBody, EmptyObject, 0, 0, fault), o, handleDelete(o))

\* scanAll sends one ScanCommand and takes its page; after the last page the
\* items are sorted and the response is made
Page(sc, request, n, more, fault) ==
    /\ storeCalls < MaxScanCalls
    /\ scan' = scanAll(sc, store, n, more, fault)
    /\ storeCalls' = storeCalls + 1
    /\ req' = request
    /\ resp' = handleList(scan')
    /\ UNCHANGED <<store, coercion, comparison, creates, writers>>

\* GET /investment?...: up to the end of the first iteration of scanAll
List(path, query, n, more, fault) ==
    /\ extractIdFromPath(path) = None
    /\ scan.pc # "scanning"
    /\ Page(StartScan(query), Request("GET", path, NullBody, query, 0, 0, fault), n, more, fault)

\* a later iteration of scanAll
ScanNext(n, more, fault) ==
    /\ scan.pc = "scanning"
    /\ Page(scan, [req EXCEPT !.fault = fault], n, more, fault)

GetStep == \E path \in ItemPaths, fault \in Faults \cup {""} : Get(path, fault)
PostStep ==
    \E body \in Bodies, ts \in Clock, rnd \in Rands, fault \in Faults \cup {""} :
        Post(body, ts, rnd, fault)
PutStep == \E path \in ItemPaths, body \in Bodies, fault \in Faults \cup {""} : Put(path, body, fault)
DeleteStep == \E path \in ItemPaths, fault \in Faults \cup {""} : Delete(path, fault)
ListStep ==
    \E path \in ListPaths, query \in Queries, n \in 1..MaxPageSize, more \in BOOLEAN,
       fault \in Faults \cup {""} :
        List(path, query, n, more, fault)
ScanNextStep ==
    \E n \in 1..MaxPageSize, more \in BOOLEAN, fault \in Faults \cup {""} :
        ScanNext(n, more, fault)

\* the single-item requests, served one at a time
NextCrud == GetStep \/ PostStep \/ PutStep \/ DeleteStep
SpecCrud == Init /\ [][NextCrud]_vars

\* list requests against a table nobody else writes
NextList == ListStep \/ ScanNextStep
SpecList == Init /\ [][NextList]_vars

\* one execution environment of the function: it serves one request at
\* a time, a single-item request only when no list request is in its loop
ItemRequest == scan.pc # "scanning" /\ NextCrud

\* GET /investment without query parameters
ListAllStep ==
    \E n \in 1..MaxPageSize, more \in BOOLEAN, fault \in Faults \cup {""} :
        List("/investment", EmptyObject, n, more, fault)

\* the environment starts on the table of records 1 and 2
InitServing == Init /\ DOMAIN store = {1, 2}

Next == ItemRequest \/ ListAllStep \/ ScanNextStep
Spec == InitServing /\ [][Next]_vars

\* list requests against tables of three records
InitSort ==
    /\ store \in SortStores
    /\ storeCalls = 0
    /\ req = NoRequest
    /\ resp = NoResponse
    /\ scan = IdleScan
    /\ coercion = NoCoercion
    /\ NoOtherActivity

SpecSort == InitSort /\ [][NextList]_vars

\* POST /investment arrives in environment e: the handler and the service run
\* up to the await of the PutCommand (a body that does not parse is answered
\* at once); ts and rnd are what Date.now() and Math.random() give
CreateArrives(e, body, ts, rnd) ==
    /\ creates[e].pc = "idle"
    /\ creates' =
          [creates EXCEPT ![e] =
              IF parseBody(body) = None
              THEN [pc |-> "done",
                    req |-> Request("POST", "/investment", body, EmptyObject, ts, rnd, ""),
                    resp |-> handlePost(investmentService_create(store, body, ts, rnd, "")),
                    calls |-> 0]
              ELSE [pc |-> "awaiting",
                    req |-> Request("POST", "/investment", body, EmptyObject, ts, rnd, ""),
                    resp |-> NoResponse,
                    calls |-> 0]]
    /\ UNCHANGED <<store, storeCalls, req, resp, scan, coercion, comparison, writers>>

\* the table executes the PutCommand of environment e, and the create resumes
\* with the answer and responds
CreatePut(e, fault) ==
    /\ creates[e].pc = "awaiting"
    /\ store' = investmentService_create(store, creates[e].req.body, creates[e].req.ts,
                                         creates[e].req.rnd, fault).st
    /\ storeCalls' = storeCalls + investmentService_create(
                          store, creates[e].req.body, creates[e].req.ts,
                          creates[e].req.rnd, fault).calls
    /\ creates' =
          [creates EXCEPT ![e] =
              [pc |-> "done",
               req |-> [creates[e].req EXCEPT !.fault = fault],
               resp |-> handlePost(investmentService_create(
                            store, creates[e].req.body, creates[e].req.ts,
                            creates[e].req.rnd, fault)),
               calls |-> investmentService_create(
                            store, creates[e].req.body, creates[e].req.ts,
                            creates[e].req.rnd, fault).calls]]
    /\ UNCHANGED <<req, resp, scan, coercion, comparison, writers>>

\* the instants at which the two creates read the clock
CreateClock == {1, 2}

CreateArrivesStep ==
    \E e \in Environments, body \in Bodies, ts \in CreateClock, rnd \in Rands :
        CreateArrives(e, body, ts, rnd)
CreatePutStep == \E e \in Environments, fault \in Faults \cup {""} : CreatePut(e, fault)

\* two create requests, each in its own execution environment, on one table
NextCreates == CreateArrivesStep \/ CreatePutStep
SpecCreates == Init /\ [][NextCreates]_vars

\* the keys whose record is not the same in two states of the table
ChangedKeys(st, after) ==
    {k \in DOMAIN st \cup DOMAIN after :
        \/ k \notin DOMAIN st
        \/ k \notin DOMAIN after
        \/ st[k] # after[k]}

\* another client's single-item request, served by another execution
\* environment between two pages of the scan, with outcome o
Concurrent(request, o, response) ==
    /\ scan.pc = "scanning"
    /\ writers.calls + o.calls <= MaxWrites
    /\ store' = o.st
    /\ writers' = [req |-> request,
                   resp |-> response,
                   written |-> writers.written \cup ChangedKeys(store, o.st),
                   calls |-> writers.calls + o.calls]
    /\ UNCHANGED <<storeCalls, req, resp, scan, coercion, comparison, creates>>

\* the bodies and the list queries of the requests that meet on the table
WriterBodies ==
    { JsonBody([id |-> Num(1), price |-> Str("50"), year |-> Num(2024)]),
      JsonBody([price |-> Num(100), owner |-> Str("bob")]),
      JsonBody([id |-> Num(4), price |-> Num(100)]) }

ScanQueries ==
    { EmptyObject,
      [price |-> Str("100")],
      [sort_by |-> Str("-id"), price |-> Str("100")] }

ConcurrentPost(body, ts, rnd) ==
    /\ body \in WriterBodies
    /\ Concurrent(Request("POST", "/investment", body, EmptyObject, ts, rnd, ""),
                  investmentService_create(store, body, ts, rnd, ""),
                  handlePost(investmentService_create(store, body, ts, rnd, "")))

ConcurrentPut(path, body) ==
    /\ body \in WriterBodies
    /\ Concurrent(Request("PUT", path, body, EmptyObject, 0, 0, ""),
                  investmentService_update(store, path, body, ""),
                  handlePut(investmentService_update(store, path, body, "")))

ConcurrentDelete(path) ==
    /\ path \in ItemPaths
    /\ Concurrent(Request("DELETE", path, NullBody, EmptyObject, 0, 0, ""),
                  investmentService_delete(store, path, ""),
                  handleDelete(investmentService_delete(store, path, "")))

\* the one list request the writes interleave with
ListAmongWrites(query, n, more, fault) ==
    /\ scan.pc = "idle"
    /\ List("/investment", query, n, more, fault)

ConcurrentPostStep ==
    \E body \in WriterBodies, ts \in Clock, rnd \in Rands : ConcurrentPost(body, ts, rnd)
ConcurrentPutStep == \E path \in ItemPaths, body \in WriterBodies : ConcurrentPut(path, body)
ConcurrentDeleteStep == \E path \in ItemPaths : ConcurrentDelete(path)
ListAmongWritesStep ==
    \E query \in ScanQueries, n \in 1..MaxPageSize, more \in BOOLEAN, fault \in Faults \cup {""} :
        ListAmongWrites(query, n, more, fault)

\* one list request, and the creates, updates and deletes of other clients
\* between its pages
NextScanUnderWrites ==
    \/ ListAmongWritesStep
    \/ ScanNextStep
    \/ ConcurrentPostStep
    \/ ConcurrentPutStep
    \/ ConcurrentDeleteStep
SpecScanUnderWrites == Init /\ [][NextScanUnderWrites]_vars

\* the comparator on its own: it is applied to two attribute values, in
\* both orders
InitCompare ==
    /\ store = EmptyStore
    /\ storeCalls = 0
    /\ req = NoRequest
    /\ resp = NoResponse
    /\ scan = IdleScan
    /\ coercion = NoCoercion
    /\ comparison \in {[NoComparison EXCEPT !.a = a, !.b = b] :
                            a \in AttributeValues, b \in AttributeValues}
    /\ creates = NoCreates
    /\ writers = NoWriters

ApplyCompareValues ==
    /\ comparison.result = None
    /\ comparison' =
          [comparison EXCEPT !.result = Some(compareValues(comparison.a, comparison.b)),
                             !.reverse = Some(compareValues(comparison.b, comparison.a))]
    /\ UNCHANGED <<store, storeCalls, req, resp, scan, coercion, creates, writers>>

NextCompare == ApplyCompareValues
SpecCompare == InitCompare /\ [][NextCompare]_vars

\* the sanitizers on their own: each is applied to a raw object, and then
\* to its own result
InitCoerce ==
    /\ store = EmptyStore
    /\ storeCalls = 0
    /\ req = NoRequest
    /\ resp = NoResponse
    /\ scan = IdleScan
    /\ coercion \in {[NoCoercion EXCEPT !.raw = o] : o \in RawObjects}
    /\ NoOtherActivity

ApplySanitizeInvestmentPayload ==
    /\ coercion.payloadPasses < MaxPasses
    /\ coercion' =
          [coercion EXCEPT
              !.payload = Some(sanitizeInvestmentPayload(
                                   IF coercion.payloadPasses = 0 THEN coercion.raw
                                   ELSE coercion.payload[1])),
              !.payloadPasses = @ + 1]
    /\ UNCHANGED <<store, storeCalls, req, resp, scan, comparison, creates, writers>>

ApplySanitizeFilters ==
    /\ coercion.filterPasses < MaxPasses
    /\ coercion' =
          [coercion EXCEPT
              !.filters = Some(sanitizeFilters(
                                   IF coercion.filterPasses = 0 THEN coercion.raw
                                   ELSE coercion.filters[1])),
              !.filterPasses = @ + 1]
    /\ UNCHANGED <<store, storeCalls, req, resp, scan, comparison, creates, writers>>

NextCoerce == ApplySanitizeInvestmentPayload \/ ApplySanitizeFilters
SpecCoerce == InitCoerce /\ [][NextCoerce]_vars

-----------------------------------------------------------------------------
(* Claims about the single-item requests (SpecCrud).  In SpecCrud every    *)
(* step serves one request: req' is that request and resp' its response.   *)
(* A claim about what the store answers is stated for the requests the     *)
(* store serves (req'.fault = "").                                         *)

\* C1: a create whose key is already in the table never succeeds and leaves
\* the table, and so the record under that key, as it was; when the store
\* serves the command the response is 409 'Investment ID already exists'.
C1_CreateNeverOverwrites ==
    [][ (req'.method = "POST" /\ parseBody(req'.body) # None) =>
          LET k == KeyOf(CreatePayload(parseBody(req'.body)[1], req'.ts, req'.rnd))
          IN  k \in DOMAIN store =>
                /\ store' = store
                /\ resp'.statusCode # 201
                /\ req'.fault = "" =>
                      /\ resp'.statusCode = 409
                      /\ resp'.message = "Investment ID already exists"
                      /\ resp'.data = None ]_vars

\* a create was refused with 409 for a key whose stored record differs from
\* the record the create carried
C1_ConflictReached ==
    /\ req.method = "POST"
    /\ resp.statusCode = 409
    /\ parseBody(req.body) # None
    /\ LET item == CreatePayload(parseBody(req.body)[1], req.ts, req.rnd)
       IN  KeyOf(item) \in DOMAIN store /\ store[KeyOf(item)] # item

\* C2: an update with a non-empty sanitized field set, addressed to a key
\* that is not in the table and served by the store, is answered 404 and
\* leaves the table unchanged.
C2_UpdateMissingKeyIsNotFound ==
    [][ ( /\ req'.method = "PUT"
          /\ extractIdFromPath(req'.path) # None
          /\ parseBody(req'.body) # None
          /\ DOMAIN sanitizeInvestmentPayload(parseBody(req'.body)[1]) # {}
          /\ extractIdFromPath(req'.path)[1] \notin DOMAIN store
          /\ req'.fault = "" ) =>
          /\ resp'.statusCode = 404
          /\ resp'.message = "Investment Not Found"
          /\ store' = store ]_vars

\* C3: a served delete of a key in the table removes exactly that record and
\* returns it as it was, and a get of the key right after it is answered
\* 404; a served delete of a key not in the table is answered 404 and leaves
\* the table unchanged.
C3_DeleteReturnsOldOrNotFound ==
    [][ /\ ( /\ req'.method = "DELETE"
             /\ extractIdFromPath(req'.path) # None
             /\ req'.fault = "" ) =>
             LET k == extractIdFromPath(req'.path)[1]
             IN  IF k \in DOMAIN store
                 THEN /\ resp'.ret = Some(store[k])
                      /\ resp'.statusCode = 204
                      /\ DOMAIN store' = DOMAIN store \ {k}
                      /\ \A j \in DOMAIN store' : store'[j] = store[j]
                 ELSE /\ resp'.statusCode = 404
                      /\ resp'.message = "Investment Not Found"
                      /\ resp'.ret = None
                      /\ store' = store
        /\ ( /\ req.method = "DELETE"
             /\ resp.statusCode = 204
             /\ req'.method \in {"GET", "DELETE"}
             /\ req'.path = req.path
             /\ req'.fault = "" ) =>
             /\ resp'.statusCode = 404
             /\ store' = store ]_vars

\* a delete returned the record it removed
C3_DeletedReached ==
    /\ req.method = "DELETE"
    /\ resp.statusCode = 204
    /\ resp.ret # None
    /\ extractIdFromPath(req.path)[1] \notin DOMAIN store
    /\ KeyOf(resp.ret[1]) = extractIdFromPath(req.path)[1]

\* C4: an update whose sanitized field set is empty is answered with the
\* validation message, not with 404, and sends nothing to the store: the
\* store-call counter and the table are unchanged.
C4_EmptyUpdateIsValidationError ==
    [][ ( /\ req'.method = "PUT"
          /\ extractIdFromPath(req'.path) # None
          /\ parseBody(req'.body) # None
          /\ DOMAIN sanitizeInvestmentPayload(parseBody(req'.body)[1]) = {} ) =>
          /\ resp'.message = "No valid fields provided for update"
          /\ resp'.statusCode # 404
          /\ resp'.status = "1"
          /\ storeCalls' = storeCalls
          /\ store' = store ]_vars

\* an update of a key that is not in the table was refused for its empty
\* field set, though its body had fields
C4_EmptyUpdateReached ==
    /\ req.method = "PUT"
    /\ resp.message = "No valid fields provided for update"
    /\ extractIdFromPath(req.path) # None
    /\ extractIdFromPath(req.path)[1] \notin DOMAIN store
    /\ DOMAIN req.body.obj # {}

\* the coerced payload as the claim describes it: null fields dropped,
\* numeric fields converted to numbers (dropped when they do not convert),
\* year converted to a string
C5_Coerced(payload) ==
    LET kept == {f \in DOMAIN payload :
                    /\ payload[f].t \notin {"null", "undef"}
                    /\ f \in {"id", "price"} => ToNumber(payload[f]).t = "num"}
    IN  [f \in kept |-> IF f \in {"id", "price"} THEN ToNumber(payload[f])
                        ELSE IF f = "year" THEN StringOf(payload[f])
                        ELSE payload[f]]

\* a create of a payload with a key has succeeded and the next request is a
\* served get of that key
C5_GetAfterCreate ==
    /\ req.method = "POST"
    /\ resp.statusCode = 201
    /\ "id" \in DOMAIN C5_Coerced(req.body.obj)
    /\ req'.method = "GET"
    /\ extractIdFromPath(req'.path) = Some(C5_Coerced(req.body.obj)["id"].n)
    /\ req'.fault = ""

\* C5, first reading: the get after a create returns the coerced payload.
C5_RoundTripAsStated ==
    [][ C5_GetAfterCreate =>
          /\ resp'.statusCode = 200
          /\ resp'.data = Some(C5_Coerced(req.body.obj)) ]_vars

\* C5, with the timestamp: the get after a create returns the coerced payload, with
\* createdAt set to the time of the create when the payload's createdAt is
\* absent or falsy.
C5_RoundTripWithTimestamp ==
    [][ C5_GetAfterCreate =>
          /\ resp'.statusCode = 200
          /\ resp'.data =
                Some(IF Falsy(Prop(C5_Coerced(req.body.obj), "createdAt"))
                     THEN Merge(C5_Coerced(req.body.obj), [createdAt |-> toISOString(req.ts)])
                     ELSE C5_Coerced(req.body.obj)) ]_vars

\* a get returned a record that a create wrote from a payload with a string
\* price and a numeric year
C5_RoundTripReached ==
    /\ req.method = "GET"
    /\ resp.statusCode = 200
    /\ resp.data = Some([id |-> Num(1), price |-> Num(50), year |-> Str("2024"),
                         createdAt |-> toISOString(1)])

-----------------------------------------------------------------------------
(* Claims about list (SpecList).  In SpecList the table does not change,   *)
(* req is the list request of the scan in flight (or just finished) and    *)
(* resp is its response once scan.pc is "done" or "failed".                *)

\* C6: when every value of the filter set is absent, null or the empty
\* string, the scan input has no FilterExpression and no placeholder
\* bindings, and the result is the result of list with an empty filter set
\* and the same sort directive.
C6_EmptyFiltersScanAll ==
    ( /\ scan.pc # "idle"
      /\ \A f \in DOMAIN FiltersOf(req.queryStringParameters) :
            \/ req.queryStringParameters[f].t \in {"undef", "null"}
            \/ req.queryStringParameters[f] = Str("") ) =>
      /\ DOMAIN scan.input = {"TableName"}
      /\ scan.pc = "done" =>
            resp.data = Some(investmentRepository_list(
                                 store, EmptyObject, SortByOf(req.queryStringParameters)))

\* a list whose filter set has fields, all of them empty, returned the three
\* records of the table
C6_EmptyFiltersReached ==
    /\ scan.pc = "done"
    /\ DOMAIN FiltersOf(req.queryStringParameters) # {}
    /\ \A f \in DOMAIN FiltersOf(req.queryStringParameters) :
          \/ req.queryStringParameters[f].t \in {"undef", "null"}
          \/ req.queryStringParameters[f] = Str("")
    /\ Len(resp.data[1]) = 3

\* C7: a filter on id or price whose value does not convert to a number is
\* dropped: the list succeeds and returns what list returns without that
\* field in the filter set.
C7_UncoercibleNumericFilterDropped ==
    scan.pc = "done" =>
      \A f \in DOMAIN FiltersOf(req.queryStringParameters) \cap {"id", "price"} :
        ( /\ req.queryStringParameters[f].t \notin {"undef", "null"}
          /\ req.queryStringParameters[f] # Str("")
          /\ ToNumber(req.queryStringParameters[f]).t = "nan" ) =>
          /\ resp.statusCode = 200
          /\ resp.data =
                Some(investmentRepository_list(
                         store,
                         [g \in DOMAIN FiltersOf(req.queryStringParameters) \ {f} |->
                             req.queryStringParameters[g]],
                         SortByOf(req.queryStringParameters)))

\* a list filtered on price "abc" alone returned the three records of the table
C7_UncoercibleReached ==
    /\ scan.pc = "done"
    /\ req.queryStringParameters = [price |-> Str("abc")]
    /\ Len(resp.data[1]) = 3

\* C8: with an empty sort directive, list returns, each once, exactly the
\* records in which every field of the sanitized filter set is present and
\* equal to the sanitized value; a filter on a field no record has gives the
\* empty result with status 200.
C8_ListIsConjunctionOfEqualities ==
    (scan.pc = "done" /\ SortByOf(req.queryStringParameters) = "") =>
      LET wanted == sanitizeFilters(FiltersOf(req.queryStringParameters))
          keys == {k \in DOMAIN store :
                      \A f \in DOMAIN wanted :
                          f \in DOMAIN store[k] /\ store[k][f] = wanted[f]}
      IN  /\ resp.statusCode = 200
          /\ resp.data # None
          /\ {resp.data[1][i] : i \in DOMAIN resp.data[1]} = {store[k] : k \in keys}
          /\ Len(resp.data[1]) = Cardinality(keys)
          /\ (\E f \in DOMAIN wanted : \A k \in DOMAIN store : f \notin DOMAIN store[k])
                => resp.data = Some(<<>>)

\* a list with two filters returned the one record of three that satisfies both
C8_ConjunctionReached ==
    /\ scan.pc = "done"
    /\ req.queryStringParameters = [owner |-> Str("bob"), price |-> Str("100")]
    /\ Cardinality(DOMAIN store) = 3
    /\ resp.data = Some(<<Record3>>)

\* the records of a sequence of pages, in page order
RECURSIVE C9_Concat(_)
C9_Concat(pages) ==
    IF pages = <<>> THEN <<>> ELSE Head(pages).Items \o C9_Concat(Tail(pages))

\* C9: the first ScanCommand carries no ExclusiveStartKey, each later one
\* carries the LastEvaluatedKey of the response before it, a command is sent
\* only after the response to the one before it, the loop ends with the
\* first response without LastEvaluatedKey, and the items before sorting are
\* the pages' items in the order of the pages.
C9_PagesFollowTokens ==
    /\ scan.pc # "idle" => Len(scan.requests) >= 1 /\ scan.requests[1] = None
    /\ \A i \in 2..Len(scan.requests) :
          /\ i - 1 \in DOMAIN scan.responses
          /\ scan.responses[i - 1].LastEvaluatedKey # None
          /\ scan.requests[i] = scan.responses[i - 1].LastEvaluatedKey
    /\ Len(scan.requests) = Len(scan.responses) + (IF scan.pc = "failed" THEN 1 ELSE 0)
    /\ scan.pc = "scanning" =>
          scan.responses[Len(scan.responses)].LastEvaluatedKey # None
    /\ scan.pc = "done" =>
          scan.responses[Len(scan.responses)].LastEvaluatedKey = None
    /\ scan.items = C9_Concat(scan.responses)
    /\ (scan.pc = "done" /\ SortByOf(req.queryStringParameters) = "") =>
          resp.data = Some(C9_Concat(scan.responses))

\* a scan of three pages, each with one record, has finished
C9_ThreePagesReached ==
    /\ scan.pc = "done"
    /\ Len(scan.responses) = 3
    /\ \A i \in 1..3 : Len(scan.responses[i].Items) = 1
    /\ scan.items = <<Record1, Record2, Record3>>
    /\ resp.data = Some(<<Record1, Record2, Record3>>)

\* C10: when the store fails on a page, the list request is answered 500
\* without data, whatever the earlier pages held; the scan sends nothing
\* after the failed command, and the next ScanCommand, if any, is the first
\* one of a new list request.
C10_FailedPageFailsList ==
    [][ /\ req'.fault # "" =>
             /\ scan'.pc = "failed"
             /\ resp'.statusCode = 500
             /\ resp'.data = None
             /\ resp'.ret = None
             /\ Len(scan'.requests) = Len(scan.requests) + 1
                  \/ (scan.pc # "scanning" /\ Len(scan'.requests) = 1)
        /\ scan.pc = "failed" =>
             /\ scan'.requests = <<None>>
             /\ scan'.items = (IF scan'.responses = <<>> THEN <<>>
                               ELSE scan'.responses[1].Items) ]_vars

\* the store failed on a page after a page that had returned a record
C10_FailedAfterPageReached ==
    /\ scan.pc = "failed"
    /\ Len(scan.requests) >= 2
    /\ scan.items # <<>>
    /\ resp.statusCode = 500

-----------------------------------------------------------------------------
(* Claims about the sort (SpecSort).  When scan.pc is "done", scan.items   *)
(* is the sequence before the sort and resp.data the sequence after it.    *)

\* the place of a record in a sequence of records with different keys
C11_Position(seq, item) == CHOOSE i \in DOMAIN seq : seq[i] = item

\* two records compare equal on every field of the directive
C11_EqualOnDirective(sortFields, itemA, itemB) ==
    \A k \in DOMAIN sortFields :
        compareValues(Prop(itemA, sortFields[k].field), Prop(itemB, sortFields[k].field)) = 0

\* C11: the sort is stable: two records that compare equal on every field of
\* the directive are in the result in the order they have in the sequence
\* of the pages.
C11_SortIsStable ==
    (scan.pc = "done" /\ parseSortBy(scan.sortBy) # <<>>) =>
      \A i, j \in DOMAIN scan.items :
        (i < j /\ C11_EqualOnDirective(parseSortBy(scan.sortBy), scan.items[i], scan.items[j])) =>
          /\ scan.items[i] \in {resp.data[1][m] : m \in DOMAIN resp.data[1]}
          /\ scan.items[j] \in {resp.data[1][m] : m \in DOMAIN resp.data[1]}
          /\ C11_Position(resp.data[1], scan.items[i]) < C11_Position(resp.data[1], scan.items[j])

\* the comparison of two records on the k-th field of the directive, in the
\* direction of that field
C12_Compare(sortFields, k, itemA, itemB) ==
    compareValues(Prop(itemA, sortFields[k].field), Prop(itemB, sortFields[k].field))
        * sortFields[k].direction

\* C12: the result of list is a permutation of the scanned records, and of
\* any two records the one that comes first is the one that the first field
\* of the directive on which they differ puts first in the direction of that
\* field.
C12_SortIsLexicographic ==
    (scan.pc = "done" /\ parseSortBy(scan.sortBy) # <<>>) =>
      /\ Len(resp.data[1]) = Len(scan.items)
      /\ \A r \in {scan.items[m] : m \in DOMAIN scan.items} :
            Cardinality({m \in DOMAIN resp.data[1] : resp.data[1][m] = r})
                = Cardinality({m \in DOMAIN scan.items : scan.items[m] = r})
      /\ \A i, j \in DOMAIN resp.data[1] :
            i < j =>
              \A k \in DOMAIN parseSortBy(scan.sortBy) :
                ( /\ \A m \in 1..(k - 1) :
                        C12_Compare(parseSortBy(scan.sortBy), m, resp.data[1][i], resp.data[1][j]) = 0
                  /\ C12_Compare(parseSortBy(scan.sortBy), k, resp.data[1][i], resp.data[1][j]) # 0 ) =>
                  C12_Compare(parseSortBy(scan.sortBy), k, resp.data[1][i], resp.data[1][j]) < 0

\* the tokens of a directive that name a field: its comma-separated tokens
\* without the blanks around them, except those that are empty or only a prefix
C13_Tokens(sortBy) ==
    SelectSeq([i \in DOMAIN Split(sortBy, ",") |-> Trim(Split(sortBy, ",")[i])],
              LAMBDA t : t \notin {"", "-", "+"})

\* C13: parseSortBy yields one pair for each token that names a field, in
\* the order of the tokens: descending for a token that begins with '-',
\* ascending for one that begins with '+' or with neither, the field being
\* the token without that one prefix character; and a directive that yields
\* no pair leaves the items in the order of the scan.
C13_ParseSortByReadsTokens ==
    scan.pc # "idle" =>
      /\ Len(parseSortBy(scan.sortBy)) = Len(C13_Tokens(scan.sortBy))
      /\ \A i \in DOMAIN parseSortBy(scan.sortBy) :
            /\ parseSortBy(scan.sortBy)[i].field # ""
            /\ parseSortBy(scan.sortBy)[i].direction
                  = (IF Char(C13_Tokens(scan.sortBy)[i], 1) = "-" THEN 0 - 1 ELSE 1)
            /\ \E prefix \in {"", "-", "+"} :
                  /\ prefix \o parseSortBy(scan.sortBy)[i].field = C13_Tokens(scan.sortBy)[i]
                  /\ prefix = "" => Char(C13_Tokens(scan.sortBy)[i], 1) \notin {"-", "+"}
      /\ (scan.pc = "done" /\ C13_Tokens(scan.sortBy) = <<>>) => resp.data = Some(scan.items)

\* a list sorted by ' +price , -id ' returned the record of price 50 first and
\* then the two of price 100, the higher id first
C13_PrefixesReached ==
    /\ scan.pc = "done"
    /\ scan.sortBy = " +price , -id "
    /\ parseSortBy(scan.sortBy) = <<[field |-> "price", direction |-> 1],
                                    [field |-> "id", direction |-> 0 - 1]>>
    /\ resp.data = Some(<<Record2, Record3, Record1>>)

-----------------------------------------------------------------------------
(* Claims about coercion as the requests apply it (SpecCrud)               *)

\* C14: every record that a create or an update writes has a string year
\* when it has a year, the string of the year the payload gave; and in every
\* table so written, list with the filter year = 2024 (a number) returns
\* exactly the records whose year is the string "2024".
C14_YearIsAlwaysString ==
    [][ /\ \A k \in DOMAIN store' :
              (k \notin DOMAIN store \/ store'[k] # store[k]) =>
                /\ "year" \in DOMAIN store'[k] => store'[k]["year"].t = "str"
                /\ ("year" \in DOMAIN req'.body.obj /\ req'.body.obj["year"].t \notin {"null", "undef"}) =>
                      /\ "year" \in DOMAIN store'[k]
                      /\ store'[k]["year"] = StringOf(req'.body.obj["year"])
        /\ LET listed == investmentRepository_list(store', [year |-> Num(2024)], "")
           IN  /\ {listed[i] : i \in DOMAIN listed}
                     = {store'[k] : k \in {j \in DOMAIN store' :
                                              /\ "year" \in DOMAIN store'[j]
                                              /\ store'[j]["year"] = Str("2024")}}
               /\ Len(listed) = Cardinality({j \in DOMAIN store' :
                                                /\ "year" \in DOMAIN store'[j]
                                                /\ store'[j]["year"] = Str("2024")}) ]_vars

\* an update with the number 2024 as year has changed the year of record 2
\* from "2023" to the string "2024", and list with year = 2024 returns
\* records 1 and 2
C14_NumericYearReached ==
    /\ req.method = "PUT"
    /\ resp.statusCode = 200
    /\ req.body.obj = [year |-> Num(2024), target |-> Bool(TRUE)]
    /\ req.path = "/investment/2"
    /\ store[2]["year"] = Str("2024")
    /\ store[2]["price"] = Num(50)
    /\ Len(investmentRepository_list(store, [year |-> Num(2024)], "")) = 2

-----------------------------------------------------------------------------
(* Claims about the sanitizers on their own (SpecCoerce).  After the first *)
(* pass coercion.payload is sanitizeInvestmentPayload(coercion.raw) and    *)
(* coercion.filters is sanitizeFilters(coercion.raw).                      *)

\* what C15 says of one result of sanitizing raw
C15_NumberOrDropped(raw, result) ==
    /\ DOMAIN result \subseteq DOMAIN raw
    /\ \A f \in DOMAIN raw :
          /\ raw[f].t \in {"null", "undef"} => f \notin DOMAIN result
          /\ f \in {"id", "price"} =>
                /\ f \in DOMAIN result => result[f].t = "num"
                /\ ToNumber(raw[f]).t = "nan" => f \notin DOMAIN result

\* C15: both sanitizers return a result for every raw object; in it id and
\* price are numbers or are not there, and not there when the raw value does
\* not convert; a null or undefined field is not there, and no field is there
\* that the raw object did not have.
C15_NumericIsNumberOrDropped ==
    /\ coercion.payloadPasses = 1 =>
          /\ coercion.payload # None
          /\ C15_NumberOrDropped(coercion.raw, coercion.payload[1])
    /\ coercion.filterPasses = 1 =>
          /\ coercion.filters # None
          /\ C15_NumberOrDropped(coercion.raw, coercion.filters[1])

\* both sanitizers have dropped the price "abc"
C15_DroppedReached ==
    /\ coercion.raw = [price |-> Str("abc")]
    /\ coercion.payload = Some(EmptyObject)
    /\ coercion.filters = Some(EmptyObject)

\* C16: the two sanitizers apply the same rules: of every raw object they
\* drop the same fields and give the fields they keep the same values.
C16_SameCoercionInBothContexts ==
    (coercion.payloadPasses = 1 /\ coercion.filterPasses = 1) =>
      coercion.payload = coercion.filters

\* C17: a sanitizer applied to its own result returns that result.
C17_CoercionIsIdempotent ==
    [][ /\ (coercion.payloadPasses >= 1 /\ coercion'.payloadPasses = coercion.payloadPasses + 1) =>
              coercion'.payload = coercion.payload
        /\ (coercion.filterPasses >= 1 /\ coercion'.filterPasses = coercion.filterPasses + 1) =>
              coercion'.filters = coercion.filters ]_vars

\* both sanitizers have been applied twice to an object whose id, price and
\* year they convert
C17_SecondPassReached ==
    /\ coercion.raw = [id |-> Str("2"), price |-> Num(100), year |-> Str("2023"),
                       createdAt |-> Str("T9")]
    /\ coercion.payloadPasses = 2
    /\ coercion.filterPasses = 2
    /\ coercion.payload = Some([id |-> Num(2), price |-> Num(100), year |-> Str("2023"),
                                createdAt |-> Str("T9")])
    /\ coercion.filters = coercion.payload

-----------------------------------------------------------------------------
(* Claims about the outcomes of the single-item requests (SpecCrud)        *)

\* C18: after an update answered 200 the record addressed has the fields of
\* the sanitized update set with their new values and its other fields as
\* they were, the other records are as they were, and the record returned
\* is the record as it is now.
C18_UpdateIsPartialReplace ==
    [][ (req'.method = "PUT" /\ resp'.statusCode = 200) =>
          LET k == extractIdFromPath(req'.path)[1]
              updates == sanitizeInvestmentPayload(parseBody(req'.body)[1])
          IN  /\ k \in DOMAIN store
              /\ DOMAIN store' = DOMAIN store
              /\ \A j \in DOMAIN store \ {k} : store'[j] = store[j]
              /\ DOMAIN store'[k] = DOMAIN store[k] \cup DOMAIN updates
              /\ \A f \in DOMAIN store'[k] :
                    store'[k][f] = (IF f \in DOMAIN updates THEN updates[f] ELSE store[k][f])
              /\ resp'.data = Some(store'[k])
              /\ resp'.ret = Some(store'[k]) ]_vars

\* an update of price and owner has changed the price of record 1, given it
\* an owner and left its year, its createdAt and record 2 as they were
C18_PartialUpdateReached ==
    /\ req.method = "PUT"
    /\ req.path = "/investment/1"
    /\ req.body.obj = [price |-> Num(75), owner |-> Str("bob")]
    /\ resp.statusCode = 200
    /\ resp.data = Some([id |-> Num(1), price |-> Num(75), owner |-> Str("bob"),
                         year |-> Str("2024"), createdAt |-> Str("T0")])
    /\ store[1] = resp.data[1]
    /\ 2 \in DOMAIN store /\ store[2] = Record2

\* the outcome kind of a response, read from its message
C19_Kind(response) ==
    IF response.message \in {"Invalid request body", "Invalid PUT Path",
                             "Invalid DELETE Path", "No valid fields provided for update"}
    THEN "Validation"
    ELSE IF response.message = "Investment ID already exists" THEN "Conflict"
    ELSE IF response.message = "Investment Not Found" THEN "NotFound"
    ELSE IF response.message \in Faults \cup {"ValidationException"} THEN "StoreFailure"
    ELSE "none"

\* C19: two responses of different outcome kinds (Validation, Conflict,
\* NotFound, Store Failure) have different status codes; stated of every
\* response and the one after it.
C19_OutcomeKindsHaveDistinctStatus ==
    [][ ( /\ C19_Kind(resp) # "none"
          /\ C19_Kind(resp') # "none"
          /\ C19_Kind(resp) # C19_Kind(resp') ) =>
          resp.statusCode # resp'.statusCode ]_vars

-----------------------------------------------------------------------------
(* Claims about one execution environment serving requests of every kind   *)
(* (Spec)                                                                  *)

\* C20: a get, create, update or delete request sends at most one command
\* to the store, whatever the store answers; a list request sends one
\* ScanCommand in each iteration of its loop, so that the commands sent are
\* as many as the pages received, and one more when the last command failed.
C20_AtMostOneStoreCallPerRequest ==
    [][ IF req'.method = "GET" /\ extractIdFromPath(req'.path) = None
        THEN /\ storeCalls' = storeCalls + 1
             /\ Len(scan'.requests) = (IF scan.pc = "scanning" THEN Len(scan.requests) + 1 ELSE 1)
             /\ Len(scan'.requests)
                   = Len(scan'.responses) + (IF scan'.pc = "failed" THEN 1 ELSE 0)
        ELSE /\ storeCalls' \in {storeCalls, storeCalls + 1}
             /\ (req'.fault # "" \/ resp'.statusCode \in {404, 409}) =>
                   storeCalls' = storeCalls + 1 ]_vars

\* after a list of one page, a create that the store refused for its key:
\* two commands have been sent in all
C20_OneCallEachReached ==
    /\ scan.pc = "done"
    /\ Len(scan.requests) = 1
    /\ req.method = "POST"
    /\ resp.statusCode = 409
    /\ storeCalls = 2

\* C21: of a store call made by a create, an update or a delete, only the
\* conditional-check failure is interpreted: a call that fails with any other
\* store error is answered 500 with that error's name and leaves the table
\* unchanged, an answer 409 or 404 is never given to a failed call, and a
\* failed condition (create of a key in the table, update without the key
\* field of a key not in the table) is answered 409 resp. 404, never 500.
C21_OnlyConditionFailureIsInterpreted ==
    [][ ( /\ req'.method \in {"POST", "PUT", "DELETE"}
          /\ storeCalls' = storeCalls + 1 ) =>
          /\ req'.fault # "" =>
               /\ resp'.statusCode = 500
               /\ resp'.message = req'.fault
               /\ store' = store
          /\ resp'.statusCode \in {404, 409} => req'.fault = ""
          /\ ( /\ req'.fault = ""
               /\ req'.method = "POST"
               /\ KeyOf(CreatePayload(parseBody(req'.body)[1], req'.ts, req'.rnd))
                    \in DOMAIN store ) =>
               resp'.statusCode = 409
          /\ ( /\ req'.fault = ""
               /\ req'.method = "PUT"
               /\ extractIdFromPath(req'.path)[1] \notin DOMAIN store
               /\ "id" \notin DOMAIN sanitizeInvestmentPayload(parseBody(req'.body)[1]) ) =>
               resp'.statusCode = 404 ]_vars

\* a store error other than the conditional-check failure has been raised by
\* an update of a key that is not in the table, and answered 500
C21_StoreErrorReached ==
    /\ req.method = "PUT"
    /\ req.fault # ""
    /\ storeCalls > 0
    /\ extractIdFromPath(req.path) # None
    /\ extractIdFromPath(req.path)[1] \notin DOMAIN store
    /\ resp.statusCode = 500
    /\ resp.message = req.fault

\* C22: a successful create hands to the store, and returns, the coerced
\* payload with its own key and its own createdAt wherever the coerced
\* payload has them, and with a generated key resp. the time of the create
\* only where it lacks them; the record has a numeric key and a createdAt.
C22_CreatePopulatesOnlyAbsent ==
    [][ ( /\ req'.method = "POST"
          /\ resp'.statusCode = 201 ) =>
          LET payload == sanitizeInvestmentPayload(parseBody(req'.body)[1])
              created == resp'.ret[1]
          IN  /\ created["id"].t = "num"
              /\ "createdAt" \in DOMAIN created
              /\ store'[created["id"].n] = created
              /\ created["id"] = IF "id" \in DOMAIN payload THEN payload["id"]
                                 ELSE generateInvestmentId(req'.ts, req'.rnd)
              /\ created["createdAt"] =
                    IF "createdAt" \in DOMAIN payload THEN payload["createdAt"]
                    ELSE toISOString(req'.ts) ]_vars

\* C22, the part on the key: every record a create wrote and returned has a
\* numeric key and a createdAt, the key being the payload's own when the
\* coerced payload has one and a generated one otherwise.
C22_CreatedRecordHasNumericKey ==
    [][ ( /\ req'.method = "POST"
          /\ resp'.statusCode = 201 ) =>
          LET payload == sanitizeInvestmentPayload(parseBody(req'.body)[1])
              created == resp'.ret[1]
          IN  /\ created["id"].t = "num"
              /\ "createdAt" \in DOMAIN created
              /\ store'[created["id"].n] = created
              /\ created["id"] = IF "id" \in DOMAIN payload THEN payload["id"]
                                 ELSE generateInvestmentId(req'.ts, req'.rnd) ]_vars

\* the UpdateCommand the repository sends for an update request
C25_CommandOf(request) ==
    LET updates == sanitizeInvestmentPayload(parseBody(request.body)[1])
    IN  UpdateCommandOf(extractIdFromPath(request.path)[1], updates,
                        SetToSeq({k \in DOMAIN updates : updates[k].t # "undef"}))

\* the fields the SET clause of an UpdateCommand assigns
C25_AssignedFields(cmd) ==
    {cmd.ExpressionAttributeNames[p[1]] : p \in cmd.UpdateExpression}

\* C25: the update expression an update sends to the store never assigns the
\* key field id, and after the update every record of the table still has the
\* key it is stored under.
C25_UpdateNeverAssignsKey ==
    [][ ( /\ req'.method = "PUT"
          /\ storeCalls' = storeCalls + 1 ) =>
          /\ "id" \notin C25_AssignedFields(C25_CommandOf(req'))
          /\ \A k \in DOMAIN store' : store'[k]["id"] = Num(k) ]_vars

\* C25, the part on the stored record: whatever an update sends, every record
\* of the table keeps the key it is stored under.
C25_StoredKeyStays ==
    \A k \in DOMAIN store : store[k]["id"] = Num(k)

\* the clauses of the filter expression of a scan input
C28_Clauses(input) ==
    IF "FilterExpression" \in DOMAIN input THEN input.FilterExpression ELSE {}

\* the clauses of a scan input that test the field f, as <<field, value>>
C28_ClausesOn(input, f) ==
    {c \in C28_Clauses(input) : input.ExpressionAttributeNames[c[1]] = f}

C28_NonEmpty(v) ==
    v.t \notin {"undef", "null"} /\ v # Str("")

\* C28 as stated: the filter expression of a list has no clause on sort_by,
\* and exactly one clause for every other query parameter that is not empty.
C28_EveryParameterIsAClause ==
    scan.pc # "idle" =>
      /\ C28_ClausesOn(scan.input, "sort_by") = {}
      /\ \A k \in DOMAIN req.queryStringParameters \ {"sort_by"} :
            C28_NonEmpty(req.queryStringParameters[k]) =>
                Cardinality(C28_ClausesOn(scan.input, k)) = 1

\* C28: the filter expression of a list has no clause on sort_by; every other
\* query parameter that is not empty and, for id and price, converts to a
\* number, contributes exactly one clause, an equality with its coerced value;
\* every other parameter contributes none.
C28_SortByIsNeverAFilter ==
    scan.pc # "idle" =>
      /\ C28_ClausesOn(scan.input, "sort_by") = {}
      /\ \A c \in C28_Clauses(scan.input) :
            scan.input.ExpressionAttributeNames[c[1]]
                \in DOMAIN req.queryStringParameters \ {"sort_by"}
      /\ \A k \in DOMAIN req.queryStringParameters \ {"sort_by"} :
            IF /\ C28_NonEmpty(req.queryStringParameters[k])
               /\ k \in REPO_NUMERIC_FIELDS => ToNumber(req.queryStringParameters[k]).t # "nan"
            THEN /\ Cardinality(C28_ClausesOn(scan.input, k)) = 1
                 /\ \A c \in C28_ClausesOn(scan.input, k) :
                       scan.input.ExpressionAttributeValues[c[2]] =
                           parseFilterValue(k, req.queryStringParameters[k])[1]
            ELSE C28_ClausesOn(scan.input, k) = {}

\* a list with a sort directive and a filter on price has returned the two
\* records of three with that price, by descending key
C28_SortedAndFilteredReached ==
    /\ scan.pc = "done"
    /\ req.queryStringParameters = [sort_by |-> Str("-id"), price |-> Str("100")]
    /\ Cardinality(C28_Clauses(scan.input)) = 1
    /\ resp.data = Some(<<Record3, Record1>>)

\* C26: compareValues is a consistent ordering of attribute values: for all
\* a and b, compareValues(a, b) and compareValues(b, a) are both 0 or have
\* opposite signs.
C26_CompareValuesIsConsistent ==
    comparison.result # None =>
        \/ comparison.result[1] = 0 /\ comparison.reverse[1] = 0
        \/ comparison.result[1] > 0 /\ comparison.reverse[1] < 0
        \/ comparison.result[1] < 0 /\ comparison.reverse[1] > 0

\* C26, among values of one type: numbers, strings and booleans compared with
\* a value of their own type are ordered consistently.
C26_ConsistentWithinOneType ==
    ( /\ comparison.result # None
      /\ comparison.a.t = comparison.b.t
      /\ comparison.a.t \in {"num", "str", "bool"} ) =>
        \/ comparison.result[1] = 0 /\ comparison.reverse[1] = 0
        \/ comparison.result[1] > 0 /\ comparison.reverse[1] < 0
        \/ comparison.result[1] < 0 /\ comparison.reverse[1] > 0

\* a record lacks the sort field: the attribute is absent or null
C27_Lacks(item, field) == Prop(item, field).t \in {"undef", "null"}

C27_MissingFirstReached ==
    /\ scan.pc = "done"
    /\ scan.sortBy = "-owner"
    /\ resp.data = Some(<<Record1, Record2, Record3>>)

\* the key under which a create request puts its record
C23_KeyOf(request) ==
    KeyOf(CreatePayload(parseBody(request.body)[1], request.ts, request.rnd))

\* both creates have been answered, they put under the same key, and the
\* table has served both PutCommands
C23_SameKeyRaceOver ==
    /\ \A e \in Environments :
          /\ creates[e].pc = "done"
          /\ parseBody(creates[e].req.body) # None
          /\ creates[e].req.fault = ""
    /\ C23_KeyOf(creates[1].req) = C23_KeyOf(creates[2].req)

C23_Winners == {e \in Environments : creates[e].resp.statusCode = 201}

\* C23 as stated: of two concurrent creates with the same key exactly one is
\* answered 201 and the other 409, the table holds the record of the one
\* answered 201, and each has sent one PutCommand.
C23_ExactlyOneCreateSucceeds ==
    C23_SameKeyRaceOver =>
      /\ Cardinality(C23_Winners) = 1
      /\ \A e \in Environments \ C23_Winners : creates[e].resp.statusCode = 409
      /\ \A e \in C23_Winners :
            store[C23_KeyOf(creates[e].req)] = creates[e].resp.ret[1]
      /\ \A e \in Environments : creates[e].calls = 1

\* C23: of two concurrent creates with the same key at most one is answered
\* 201 and every other one 409; each has sent one PutCommand; when one is
\* answered 201 the table holds its record under the key; none is answered
\* 201 only when the key was in the table before, and then the table is as it
\* was before.
C23_AtMostOneCreateSucceeds ==
    C23_SameKeyRaceOver =>
      /\ Cardinality(C23_Winners) <= 1
      /\ \A e \in Environments \ C23_Winners : creates[e].resp.statusCode = 409
      /\ \A e \in C23_Winners :
            store[C23_KeyOf(creates[e].req)] = creates[e].resp.ret[1]
      /\ \A e \in Environments : creates[e].calls = 1
      /\ storeCalls = 2
      /\ C23_Winners = {} =>
            /\ store \in InitStores
            /\ C23_KeyOf(creates[1].req) \in DOMAIN store
      /\ C23_Winners # {} =>
            \E st \in InitStores :
                /\ C23_KeyOf(creates[1].req) \notin DOMAIN st
                /\ DOMAIN store = DOMAIN st \cup {C23_KeyOf(creates[1].req)}
                /\ \A k \in DOMAIN st : store[k] = st[k]

\* two creates of different bodies without a key, arrived in the same
\* instant, have generated the same key: the second environment's create was
\* answered 201 and the first one's 409
C23_GeneratedKeyRaceReached ==
    /\ C23_SameKeyRaceOver
    /\ creates[1].req.body # creates[2].req.body
    /\ \A e \in Environments :
          "id" \notin DOMAIN sanitizeInvestmentPayload(parseBody(creates[e].req.body)[1])
    /\ creates[1].resp.statusCode = 409
    /\ creates[2].resp.statusCode = 201
    /\ store[C23_KeyOf(creates[2].req)] = creates[2].resp.ret[1]

\* how many times a sequence of records holds a record with the key k
C24_Occurrences(items, k) ==
    Cardinality({i \in DOMAIN items : KeyOf(items[i]) = k})

\* C24: when the scan of a list has ended among the writes of other clients,
\* every record of the table that no write has created, changed or deleted
\* since the scan began is in the result exactly once if it satisfies the
\* filter and not at all if it does not, and every record of the result
\* whose key no write has touched is the record the table holds.
C24_UntouchedRecordsListedOnce ==
    scan.pc = "done" =>
      /\ \A k \in DOMAIN store \ writers.written :
            /\ C24_Occurrences(resp.data[1], k) = IF Matches(store[k], scan.input) THEN 1 ELSE 0
            /\ C24_Occurrences(scan.items, k) = C24_Occurrences(resp.data[1], k)
      /\ \A i \in DOMAIN resp.data[1] :
            KeyOf(resp.data[1][i]) \notin writers.written =>
                /\ KeyOf(resp.data[1][i]) \in DOMAIN store
                /\ resp.data[1][i] = store[KeyOf(resp.data[1][i])]

\* a list of the whole table has ended after an update changed record 1
\* behind the scan and a delete removed record 2 ahead of it: the result
\* holds record 1 as it was before the update, and record 3, untouched, once
C24_StaleAndMissingReached ==
    /\ scan.pc = "done"
    /\ writers.written = {1, 2}
    /\ DOMAIN store = {1, 3}
    /\ store[1] # Record1
    /\ resp.data = Some(<<Record1, Record3>>)

====
